---- MODULE Spec2Model ----
(***************************************************************************)
(* A model of go-tmcl: the TMCL command executor (TMCL.Exec), its frame    *)
(* codec (calcChecksum, big-endian value field), its status classification *)
(* (getError), the named operations built on Exec (command.go), and the    *)
(* Serial attach/detach lifecycle (OpenPort, ClosePort), together with the *)
(* serial line and the board they talk to.                                 *)
(*                                                                         *)
(* Frames are sequences of 9 bytes, indexed 1..9 here and 0..8 in the Go   *)
(* source: Go's tx[k] is tx[k+1] below.                                    *)
(***************************************************************************)
EXTENDS Integers, Sequences, FiniteSets, TLC

----------------------------------------------------------------------------
(* Bounds of the model *)

\* number of goroutines that call Exec concurrently
NProcs == 2
\* total number of Exec calls made in one behaviour
MaxCalls == 2
\* number of port handles serial.OpenPort hands out in one behaviour
MaxPorts == 1
\* number of Exec calls one caller makes one after the other in LineSpec
MaxLineCalls == 3

Procs == 1..NProcs

----------------------------------------------------------------------------
(* Program constants *)

\* tx[0] = 2 // module address not used
TxAddress == 2
\* var tx [9]byte, var resp [9]byte
FrameLen == 9
\* if resp[2] < 100
StatusOK == 100
\* the nil io.ReadWriter / nil *serial.Port
NilPort == 0
\* the zero value of sync.Mutex: unlocked
Unlocked == 0

Byte == 0..255

----------------------------------------------------------------------------
(* Errors.  An error is its message and, for fmt.Errorf, the formatted     *)
(* argument.                                                               *)

Err(msg) == [msg |-> msg, arg |-> <<>>]
Errf(msg, a) == [msg |-> msg, arg |-> <<a>>]

ErrNil == Err("nil")
errorPortNotOpen == Err("port not open")
errorWrongChecksum == Err("wrong checksum")
errorInvalidCommand == Err("invalid command")
errorWrongType == Err("wrong type")
errorInvalidType == Err("invalid type")
errorConfigurationEEPROMLocked == Err("configuration EEPROM locked")
errorCommandNotAvailable == Err("command not available")
\* errors of the transport (not of this package)
errWrite == Err("write error")
errRead == Err("read error")
errEOF == Err("EOF")
errUnexpectedEOF == Err("unexpected EOF")

\* the (int32, error) pair Exec returns
Ret(v, e) == [val |-> v, err |-> e]
\* no call has returned yet
NoResult == [val |-> 0, err |-> Err("pending")]

----------------------------------------------------------------------------
(* 32-bit values.  TLC's integers are 32 bits wide, so a uint32 is kept as *)
(* its two 16-bit halves; an int32 is an integer in -2^31 .. 2^31-1.       *)

MinInt32 == -2147483647 - 1
MaxInt32 == 2147483647

\* uint32(value): the two's complement bit pattern of an int32
uint32(v) == [hi |-> (v \div 65536) % 65536, lo |-> v % 65536]

\* int32(u): the bit pattern read as a signed number
int32(u) == (IF u.hi >= 32768 THEN u.hi - 65536 ELSE u.hi) * 65536 + u.lo

\* binary.BigEndian.PutUint32: most significant byte first
PutUint32(u) == <<u.hi \div 256, u.hi % 256, u.lo \div 256, u.lo % 256>>

\* binary.BigEndian.Uint32
Uint32(b) == [hi |-> b[1] * 256 + b[2], lo |-> b[3] * 256 + b[4]]

----------------------------------------------------------------------------
(* Frame codec *)

RECURSIVE addBytes(_, _)
\* the loop of calcChecksum: x += b on a byte wraps at 256
addBytes(bts, x) ==
    IF bts = <<>> THEN x ELSE addBytes(Tail(bts), (x + Head(bts)) % 256)

RECURSIVE addBytesNoWrap(_, _)
addBytesNoWrap(bts, x) ==
    IF bts = <<>> THEN x ELSE addBytesNoWrap(Tail(bts), x + Head(bts))

\* a checksum kept in a wider integer: no wraparound
calcChecksumWide(bts) == addBytesNoWrap(bts, 0)

\* calcChecksum calculates the checksum by adding up all bytes
calcChecksum(bts) == addBytes(bts, 0)

\* binary.BigEndian.PutUint32(tx[4:8], uint32(value))
ValueBytes(value) == PutUint32(uint32(value))

\* the value field read one byte too early: resp[3:7]
ReturnValueOffByOne(resp) == int32(Uint32(SubSeq(resp, 4, 7)))

\* returnValue := int32(binary.BigEndian.Uint32(resp[4:8]))
ReturnValue(resp) == int32(Uint32(SubSeq(resp, 5, 8)))

\* the command frame Exec builds from its arguments
BuildFrame(c) ==
    LET body == <<TxAddress, c.cmd, c.typeNo, c.motorOrBank>> \o ValueBytes(c.value)
    IN  Append(body, calcChecksum(body))

\* a checksum test that leaves the last payload byte out
ChecksumOKShort(resp) == resp[9] = calcChecksum(SubSeq(resp, 1, 7))

\* resp[8] == calcChecksum(resp[:8])
ChecksumOK(resp) == resp[9] = calcChecksum(SubSeq(resp, 1, 8))

\* getError is a helper method to return meaningful errors.
getError(code) ==
    CASE code \in {100, 101} -> ErrNil
      [] code = 1 -> errorWrongChecksum
      [] code = 2 -> errorInvalidCommand
      [] code = 3 -> errorWrongType
      [] code = 4 -> errorInvalidType
      [] code = 5 -> errorConfigurationEEPROMLocked
      [] code = 6 -> errorCommandNotAvailable
      [] OTHER -> Errf("board returned error code %d", code)

\* what Exec returns for a fully read reply: checksum, then status, then value
\* ExecReply as it would be if the reply had to come from the address written to
ExecReplyCheckAddr(resp) ==
    IF ~ChecksumOK(resp) THEN Ret(0, errorWrongChecksum)
    ELSE IF resp[2] # TxAddress THEN Ret(0, Err("unexpected reply"))
    ELSE IF resp[3] < StatusOK THEN Ret(0, getError(resp[3]))
    ELSE Ret(ReturnValue(resp), ErrNil)

\* ExecReply as it would be if the status were looked at before the checksum
ExecReplyStatusFirst(resp) ==
    IF resp[3] < StatusOK THEN Ret(0, getError(resp[3]))
    ELSE IF ~ChecksumOK(resp) THEN Ret(0, errorWrongChecksum)
    ELSE Ret(ReturnValue(resp), ErrNil)

\* ExecReply as it would be if a status error kept the decoded value
ExecReplyValueOnError(resp) ==
    IF ~ChecksumOK(resp) THEN Ret(0, errorWrongChecksum)
    ELSE IF resp[3] < StatusOK THEN Ret(ReturnValue(resp), getError(resp[3]))
    ELSE Ret(ReturnValue(resp), ErrNil)

ExecReply(resp) ==
    IF ~ChecksumOK(resp) THEN Ret(0, errorWrongChecksum)
    ELSE IF resp[3] < StatusOK THEN Ret(0, getError(resp[3]))
    ELSE Ret(ReturnValue(resp), ErrNil)

----------------------------------------------------------------------------
(* The board and the serial line (the transport Exec talks to) *)

\* the board's own checksum: the plain sum of the bytes modulo 256
BoardChecksum(body) ==
    (body[1] + body[2] + body[3] + body[4] + body[5] + body[6] + body[7] + body[8]) % 256

\* a well-formed reply frame:
\* [reply-address, module-address, status, command-echo, value(4), checksum]
Reply(addr, mod, status, echo, value) ==
    LET body == <<addr, mod, status, echo>> \o PutUint32(uint32(value))
    IN  Append(body, BoardChecksum(body))

\* line noise: byte i of frame f replaced by b
Garble(f, i, b) == [f EXCEPT ![i] = b]

----------------------------------------------------------------------------
(* The named operations of command.go: each calls Exec once and returns    *)
(* what it makes of Exec's result.  An operation is its name and its       *)
(* parameters: x and y the byte parameters in the order of the signature,  *)
(* v the int32 parameter, f the bool parameter.                            *)

Op(name, x, y, v, f) == [name |-> name, x |-> x, y |-> y, v |-> v, f |-> f]

\* Exec called directly
ExecOp == Op("Exec", 0, 0, 0, FALSE)

\* Exec's arguments
Args(cmd, typeNo, motorOrBank, value) ==
    [cmd |-> cmd, typeNo |-> typeNo, motorOrBank |-> motorOrBank, value |-> value]

\* the arguments the operation passes to Exec
OpArgs(o) ==
    CASE o.name = "ROR" -> Args(1, 0, o.x, o.v)
      [] o.name = "ROL" -> Args(2, 0, o.x, o.v)
      [] o.name = "MST" -> Args(3, 0, o.x, 0)
      [] o.name = "MVP" -> Args(4, o.x, o.y, o.v)
      [] o.name = "SAP" -> Args(5, o.x, o.y, o.v)
      [] o.name = "GAP" -> Args(6, o.x, o.y, 0)
      [] o.name = "STAP" -> Args(7, o.x, o.y, 0)
      [] o.name = "RSAP" -> Args(8, o.x, o.y, 0)
      [] o.name = "SGP" -> Args(9, o.x, o.y, o.v)
      [] o.name = "GGP" -> Args(10, o.x, o.y, 0)
      [] o.name = "STGP" -> Args(11, o.x, o.y, 0)
      [] o.name = "RSGP" -> Args(12, o.x, o.y, 0)
      [] o.name = "SIO" -> Args(14, o.x, o.y, IF o.f THEN 1 ELSE 0)
      [] o.name = "GIO" -> Args(15, o.x, o.y, 0)
      [] o.name = "StopApplication" -> Args(128, 0, 0, 0)
      [] o.name = "RunApplication" -> Args(129, IF o.f THEN 1 ELSE 0, 0, o.v)
      [] o.name = "StepApplication" -> Args(130, 0, 0, 0)
      [] o.name = "ResetApplication" -> Args(131, 0, 0, 0)
      [] o.name = "GetApplicationStatus" -> Args(135, 0, 0, 0)
      [] o.name = "GetFirmwareVersion" -> Args(136, 1, 0, 0)

\* the operations that return only Exec's error
ErrorOnlyOps ==
    {"ROR", "ROL", "MST", "MVP", "SAP", "STAP", "RSAP", "SGP", "SIO",
     "StopApplication", "RunApplication", "StepApplication", "ResetApplication"}

\* the operations that return Exec's (int32, error) as it is
PassThroughOps == {"Exec", "GAP", "GGP", "STGP", "RSGP", "GIO"}

\* what an operation returns: out is <<>> when it returns no value, <<n>> for
\* an int32 n, and the characters of the string for a string ("" is <<>>)
OpRet(out, e) == [out |-> out, err |-> e]

\* no operation has returned yet
NoReturn == OpRet(<<>>, Err("pending"))

HexDigits == <<"0", "1", "2", "3", "4", "5", "6", "7", "8", "9",
               "A", "B", "C", "D", "E", "F">>

\* the hexadecimal digits of a 16-bit number, most significant first
Nibbles(h) == <<h \div 4096, (h \div 256) % 16, (h \div 16) % 16, h % 16>>

RECURSIVE StripZeros(_)
\* the digits without leading zeros; zero keeps one digit
StripZeros(d) == IF Len(d) > 1 /\ Head(d) = 0 THEN StripZeros(Tail(d)) ELSE d

\* -u in 32 bits
Negate(u) ==
    [hi |-> (65535 - u.hi + (IF u.lo = 0 THEN 1 ELSE 0)) % 65536,
     lo |-> (65536 - u.lo) % 65536]

\* fmt.Sprintf("%08X", val) of an int32: the digits of the magnitude, zeros
\* in front up to a width of 8 that counts the sign, and the sign
Sprintf08X(val) ==
    LET neg == val < 0
        mag == IF neg THEN Negate(uint32(val)) ELSE uint32(val)
        digits == StripZeros(Nibbles(mag.hi) \o Nibbles(mag.lo))
        prec == IF neg THEN 7 ELSE 8
        zeros == [i \in 1..(IF Len(digits) < prec THEN prec - Len(digits) ELSE 0) |-> "0"]
    IN  (IF neg THEN <<"-">> ELSE <<>>) \o zeros
           \o [i \in 1..Len(digits) |-> HexDigits[digits[i] + 1]]

\* TopByte as it would be if the int32 were shifted as it is
TopByteSigned(val) == val \div 16777216

\* int32((uint32(val) >> 24) & 0xFF)
TopByte(val) == (uint32(val).hi \div 256) % 256

\* what the operation returns when Exec has returned r
OpReturn(o, r) ==
    CASE o.name \in ErrorOnlyOps -> OpRet(<<>>, r.err)
      [] o.name \in PassThroughOps -> OpRet(<<r.val>>, r.err)
      [] o.name = "GetApplicationStatus" ->
            IF r.err # ErrNil THEN OpRet(<<0>>, r.err)
            ELSE OpRet(<<TopByte(r.val)>>, ErrNil)
      [] o.name = "GetFirmwareVersion" ->
            IF r.err # ErrNil THEN OpRet(<<>>, r.err)
            ELSE OpRet(Sprintf08X(r.val), ErrNil)

----------------------------------------------------------------------------
(* State *)

VARIABLES
    port,        \* TMCL.port: the transport handle, NilPort when detached
    serialPort,  \* Serial.serialPort: the port OpenPort opened, or NilPort
    log,         \* TMCL.log: the Logger given to NewTMCL
    cmdMutex,    \* TMCL.cmdMutex: the goroutine holding it, or Unlocked
    pc,          \* where each calling goroutine is in Exec
    args,        \* Exec's arguments (cmd, typeNo, motorOrBank, value)
    tx,          \* Exec's local tx
    resp,        \* Exec's local resp
    result,      \* what Exec returned to its caller
    from,        \* for each byte of resp, the call the board sent it in answer to
    op,          \* the operation of the package the goroutine called
    opret,       \* what that operation returned to its caller
    call,        \* the number of the call a goroutine is making
    ncalls,      \* the number of Exec calls made so far
    spc,         \* where the goroutine calling OpenPort/ClosePort is
    serialRet,   \* what the last OpenPort or ClosePort returned (ClosePort: nothing)
    opened,      \* the number of handles serial.OpenPort has handed out
    closed,      \* the handles that have been closed
    devIn,       \* the board: the last command frame it received
    owed,        \* the board: the commands it has not answered yet
    rx,          \* the serial line: reply bytes not read yet
    rxTag,       \* for each byte of rx, the call the board sent it in answer to
    xlog,        \* the calls made on the transport, in order
    logged       \* the calls made on the Logger, in order

vars == <<port, serialPort, log, cmdMutex, pc, args, tx, resp, result, from, op,
          opret, call, ncalls, spc, serialRet, opened, closed, devIn, owed, rx,
          rxTag, xlog, logged>>

execVars == <<cmdMutex, pc, args, tx, resp, result, from, op, opret, call, ncalls>>
serialVars == <<port, serialPort, spc, serialRet, opened, closed>>
lineVars == <<devIn, owed, rx, rxTag>>

NoArgs == Args(0, 0, 0, 0)

\* NewTMCL creates a new TMCL object
NewTMCL(p, logger) ==
    [port |-> p, log |-> IF logger = "nil" THEN "NoopLogger" ELSE logger]

\* NewSerial creates a new struct for a TMCL-Board that opens a serial itself.
NewSerial == [TMCL |-> NewTMCL(NilPort, "NoopLogger"), serialPort |-> NilPort]

Init ==
    /\ port = NewSerial.TMCL.port
    /\ log = NewSerial.TMCL.log
    /\ serialPort = NewSerial.serialPort
    /\ cmdMutex = Unlocked
    /\ pc = [p \in Procs |-> "idle"]
    /\ args = [p \in Procs |-> NoArgs]
    /\ tx = [p \in Procs |-> <<>>]
    /\ resp = [p \in Procs |-> <<>>]
    /\ result = [p \in Procs |-> NoResult]
    /\ from = [p \in Procs |-> <<>>]
    /\ op = [p \in Procs |-> ExecOp]
    /\ opret = [p \in Procs |-> NoReturn]
    /\ call = [p \in Procs |-> 0]
    /\ ncalls = 0
    /\ spc = "idle"
    /\ serialRet = "none"
    /\ opened = 0
    /\ closed = {}
    /\ devIn = <<>>
    /\ owed = 0
    /\ rx = <<>>
    /\ rxTag = <<>>
    /\ xlog = <<>>
    /\ logged = <<>>

----------------------------------------------------------------------------
(* TMCL.Exec, one goroutine p *)

\* a call on the transport: op is "W" (Write) or "R" (Read)
Event(kind, p, ok) == [op |-> kind, call |-> call[p], ok |-> ok]

\* goroutine p enters Exec(c), called by operation o, and arrives at
\* q.cmdMutex.Lock(); n bounds the number of calls made
Enter(p, o, c, n) ==
    /\ pc[p] \in {"idle", "done"}
    /\ ncalls < n
    /\ args' = [args EXCEPT ![p] = c]
    /\ op' = [op EXCEPT ![p] = o]
    /\ ncalls' = ncalls + 1
    /\ call' = [call EXCEPT ![p] = ncalls + 1]
    /\ pc' = [pc EXCEPT ![p] = "lock"]
    /\ tx' = [tx EXCEPT ![p] = <<>>]
    /\ resp' = [resp EXCEPT ![p] = <<>>]
    /\ from' = [from EXCEPT ![p] = <<>>]
    /\ result' = [result EXCEPT ![p] = NoResult]
    /\ opret' = [opret EXCEPT ![p] = NoReturn]
    /\ UNCHANGED <<cmdMutex, serialVars, lineVars, log, xlog, logged>>

\* a goroutine calls Exec(c) with arguments c from C, up to n calls in all
CallUpTo(p, C, n) == \E c \in C : Enter(p, ExecOp, c, n)

\* a goroutine calls Exec(c) with arguments c from C
Call(p, C) == CallUpTo(p, C, MaxCalls)

\* a goroutine calls one of the named operations O
CallOp(p, O) == \E o \in O : Enter(p, o, OpArgs(o), MaxCalls)

\* a Lock that does not wait for the holder
LockNoWait(p) ==
    /\ pc[p] = "lock"
    /\ cmdMutex' = p
    /\ pc' = [pc EXCEPT ![p] = "check"]
    /\ UNCHANGED <<args, tx, resp, result, from, op, opret, call, ncalls,
                   serialVars, lineVars, log, xlog, logged>>

\* q.cmdMutex.Lock(): blocks until the mutex is free
Lock(p) ==
    /\ pc[p] = "lock"
    /\ cmdMutex = Unlocked
    /\ cmdMutex' = p
    /\ pc' = [pc EXCEPT ![p] = "check"]
    /\ UNCHANGED <<args, tx, resp, result, from, op, opret, call, ncalls,
                   serialVars, lineVars, log, xlog, logged>>

\* a return that keeps the mutex when it returns an error
ReturnKeepLockOnError(p, r) ==
    /\ result' = [result EXCEPT ![p] = r]
    /\ opret' = [opret EXCEPT ![p] = OpReturn(op[p], r)]
    /\ pc' = [pc EXCEPT ![p] = "done"]
    /\ cmdMutex' = IF r.err = ErrNil THEN Unlocked ELSE cmdMutex

\* return r: the deferred q.cmdMutex.Unlock() runs, and the operation that
\* called Exec returns what it makes of r
Return(p, r) ==
    /\ result' = [result EXCEPT ![p] = r]
    /\ opret' = [opret EXCEPT ![p] = OpReturn(op[p], r)]
    /\ pc' = [pc EXCEPT ![p] = "done"]
    /\ cmdMutex' = Unlocked

\* a call on the nil transport panics (nil pointer dereference); the deferred
\* q.cmdMutex.Unlock() runs while the panic unwinds Exec, and the goroutine ends
Panic(p) ==
    /\ pc' = [pc EXCEPT ![p] = "panic"]
    /\ cmdMutex' = Unlocked
    /\ UNCHANGED <<result, opret>>

\* Exec without the test of q.port
CheckPortNoTest(p) ==
    /\ pc[p] = "check"
    /\ tx' = [tx EXCEPT ![p] = BuildFrame(args[p])]
    /\ pc' = [pc EXCEPT ![p] = "write"]
    /\ UNCHANGED <<cmdMutex, result, opret, args, resp, from, op, call, ncalls,
                   serialVars, lineVars, log, xlog, logged>>

\* if q.port == nil { return 0, errors.New("port not open") }; build tx
CheckPort(p) ==
    /\ pc[p] = "check"
    /\ IF port = NilPort
       THEN /\ Return(p, Ret(0, errorPortNotOpen))
            /\ UNCHANGED tx
       ELSE /\ tx' = [tx EXCEPT ![p] = BuildFrame(args[p])]
            /\ pc' = [pc EXCEPT ![p] = "write"]
            /\ UNCHANGED <<cmdMutex, result, opret>>
    /\ UNCHANGED <<args, resp, from, op, call, ncalls, serialVars, lineVars, log,
                   xlog, logged>>

\* Write as it would be if Exec threw away the unread bytes before a command
WriteDrain(p) ==
    /\ pc[p] = "write"
    /\ IF port = NilPort
       THEN /\ Panic(p)
            /\ UNCHANGED <<xlog, lineVars>>
       ELSE IF port \in closed
       THEN /\ Return(p, Ret(0, errWrite))
            /\ xlog' = Append(xlog, Event("W", p, FALSE))
            /\ UNCHANGED lineVars
       ELSE /\ pc' = [pc EXCEPT ![p] = "read"]
            /\ xlog' = Append(xlog, Event("W", p, TRUE))
            /\ devIn' = tx[p]
            /\ owed' = owed + 1
            /\ rx' = <<>>
            /\ rxTag' = <<>>
            /\ UNCHANGED <<cmdMutex, result, opret>>
    /\ UNCHANGED <<args, tx, resp, from, op, call, ncalls, serialVars, log, logged>>

\* q.port.Write(tx[:]) on the handle q.port holds now
Write(p) ==
    /\ pc[p] = "write"
    /\ IF port = NilPort
       THEN /\ Panic(p)
            /\ UNCHANGED <<xlog, lineVars>>
       ELSE IF port \in closed
       THEN /\ Return(p, Ret(0, errWrite))
            /\ xlog' = Append(xlog, Event("W", p, FALSE))
            /\ UNCHANGED lineVars
       ELSE /\ pc' = [pc EXCEPT ![p] = "read"]
            /\ xlog' = Append(xlog, Event("W", p, TRUE))
            /\ devIn' = tx[p]
            /\ owed' = owed + 1
            /\ UNCHANGED <<cmdMutex, result, opret, rx, rxTag>>
    /\ UNCHANGED <<args, tx, resp, from, op, call, ncalls, serialVars, log, logged>>

\* WriteFail as it would be if Exec tried the write again after an error
WriteFailRetry(p) ==
    /\ pc[p] = "write"
    /\ port # NilPort
    /\ port \notin closed
    /\ xlog' = Append(xlog, Event("W", p, FALSE))
    /\ UNCHANGED <<cmdMutex, pc, result, opret, args, tx, resp, from, op, call,
                   ncalls, serialVars, lineVars, log, logged>>

\* q.port.Write(tx[:]) fails on an open port: return 0, err
WriteFail(p) ==
    /\ pc[p] = "write"
    /\ port # NilPort
    /\ port \notin closed
    /\ Return(p, Ret(0, errWrite))
    /\ xlog' = Append(xlog, Event("W", p, FALSE))
    /\ UNCHANGED <<args, tx, resp, from, op, call, ncalls, serialVars, lineVars,
                   log, logged>>

\* io.ReadFull(q.port, resp[:]) fills resp; then checksum, status and return
Read(p) ==
    /\ pc[p] = "read"
    /\ IF port = NilPort
       THEN /\ Panic(p)
            /\ UNCHANGED <<xlog, rx, rxTag, resp, from>>
       ELSE IF port \in closed
       THEN /\ Return(p, Ret(0, errRead))
            /\ xlog' = Append(xlog, Event("R", p, FALSE))
            /\ UNCHANGED <<rx, rxTag, resp, from>>
       ELSE /\ Len(rx) >= FrameLen
            /\ resp' = [resp EXCEPT ![p] = SubSeq(rx, 1, FrameLen)]
            /\ from' = [from EXCEPT ![p] = SubSeq(rxTag, 1, FrameLen)]
            /\ rx' = SubSeq(rx, FrameLen + 1, Len(rx))
            /\ rxTag' = SubSeq(rxTag, FrameLen + 1, Len(rxTag))
            /\ Return(p, ExecReply(SubSeq(rx, 1, FrameLen)))
            /\ xlog' = Append(xlog, Event("R", p, TRUE))
    /\ UNCHANGED <<args, tx, op, call, ncalls, serialVars, devIn, owed, log, logged>>

\* ReadTimeout as it would be if Exec went on with the bytes it got, the rest
\* of resp still zero
ReadTimeoutDecode(p) ==
    /\ pc[p] = "read"
    /\ port # NilPort
    /\ port \notin closed
    /\ Len(rx) < FrameLen
    /\ rx' = <<>>
    /\ rxTag' = <<>>
    /\ resp' = [resp EXCEPT ![p] = rx \o [i \in 1..(FrameLen - Len(rx)) |-> 0]]
    /\ Return(p, ExecReply(rx \o [i \in 1..(FrameLen - Len(rx)) |-> 0]))
    /\ xlog' = Append(xlog, Event("R", p, FALSE))
    /\ UNCHANGED <<args, tx, from, op, call, ncalls, serialVars, devIn, owed,
                   log, logged>>

\* io.ReadFull(q.port, resp[:]) with fewer than 9 bytes when the port's read
\* deadline passes: the bytes read are consumed, the call returns 0, err
ReadTimeout(p) ==
    /\ pc[p] = "read"
    /\ port # NilPort
    /\ port \notin closed
    /\ Len(rx) < FrameLen
    /\ rx' = <<>>
    /\ rxTag' = <<>>
    /\ Return(p, Ret(0, IF rx = <<>> THEN errEOF ELSE errUnexpectedEOF))
    /\ xlog' = Append(xlog, Event("R", p, FALSE))
    /\ UNCHANGED <<args, tx, resp, from, op, call, ncalls, serialVars, devIn, owed,
                   log, logged>>

----------------------------------------------------------------------------
(* Serial.OpenPort and Serial.ClosePort, called by one goroutine *)

\* OpenPortAlready as it would be if OpenPort opened a port whenever called
OpenPortAlreadyReopen ==
    /\ spc = "idle"
    /\ serialPort # NilPort
    /\ opened' = opened + 1
    /\ port' = opened + 1
    /\ serialPort' = opened + 1
    /\ serialRet' = "nil"
    /\ UNCHANGED <<spc, closed, execVars, lineVars, log, xlog, logged>>

\* OpenPort on a Serial that is already open: return nil, nothing changes
OpenPortAlready ==
    /\ spc = "idle"
    /\ serialPort # NilPort
    /\ serialRet' = "nil"
    /\ UNCHANGED <<port, serialPort, spc, opened, closed, execVars, lineVars,
                   log, xlog, logged>>

\* serial.OpenPort(c) fails: return err, nothing changes
OpenPortFail ==
    /\ spc = "idle"
    /\ serialPort = NilPort
    /\ serialRet' = "error"
    /\ UNCHANGED <<port, serialPort, spc, opened, closed, execVars, lineVars,
                   log, xlog, logged>>

\* serial.OpenPort(c) succeeds: q.port = port; q.serialPort = port; return nil
OpenPortOK ==
    /\ spc = "idle"
    /\ serialPort = NilPort
    /\ opened < MaxPorts
    /\ opened' = opened + 1
    /\ port' = opened + 1
    /\ serialPort' = opened + 1
    /\ serialRet' = "nil"
    /\ UNCHANGED <<spc, closed, execVars, lineVars, log, xlog, logged>>

\* ClosePort on a Serial that is not open: return
ClosePortNoop ==
    /\ spc = "idle"
    /\ serialPort = NilPort
    /\ serialRet' = "none"
    /\ UNCHANGED <<port, serialPort, spc, opened, closed, execVars, lineVars,
                   log, xlog, logged>>

\* ClosePort: _ = q.serialPort.Close()
ClosePortClose ==
    /\ spc = "idle"
    /\ serialPort # NilPort
    /\ closed' = closed \cup {serialPort}
    /\ spc' = "closing"
    /\ UNCHANGED <<port, serialPort, serialRet, opened, execVars, lineVars, log,
                   xlog, logged>>

\* ClosePort: q.port = nil; q.serialPort = nil
ClosePortClear ==
    /\ spc = "closing"
    /\ port' = NilPort
    /\ serialPort' = NilPort
    /\ spc' = "idle"
    /\ serialRet' = "none"
    /\ UNCHANGED <<opened, closed, execVars, lineVars, log, xlog, logged>>

----------------------------------------------------------------------------
(* The board *)

\* the call whose command the board answers next: the oldest it has received
\* and not answered
AnswerTo ==
    LET written == SelectSeq(xlog, LAMBDA e : e.op = "W" /\ e.ok)
    IN  written[Len(written) - owed + 1].call

\* the board answers a command it received with a whole reply frame from R
BoardReply(R) ==
    /\ owed > 0
    /\ owed' = owed - 1
    /\ \E r \in R : rx' = rx \o r
    /\ rxTag' = rxTag \o [i \in 1..FrameLen |-> AnswerTo]
    /\ UNCHANGED <<devIn, execVars, serialVars, log, xlog, logged>>

\* the board's answer is cut short on the line: only its first k bytes arrive
BoardReplyShort(R, K) ==
    /\ owed > 0
    /\ owed' = owed - 1
    /\ \E r \in R, k \in K :
          /\ rx' = rx \o SubSeq(r, 1, k)
          /\ rxTag' = rxTag \o [i \in 1..k |-> AnswerTo]
    /\ UNCHANGED <<devIn, execVars, serialVars, log, xlog, logged>>

----------------------------------------------------------------------------
(* Spec: concurrent callers, attach/detach, a board that may answer late,  *)
(* short or not at all; a small set of commands and replies.               *)

\* Exec(1, 0, 1, 500): rotate right, motor 1, velocity 500
CmdROR == Args(1, 0, 1, 500)

Cmds == {CmdROR}

\* a success reply, the same with a wrong checksum byte, and a reply with
\* status 1
ReplyOK == Reply(2, 1, 100, 1, 7)
ReplyBadSum == Garble(ReplyOK, 9, 0)
ReplyStatus1 == Reply(2, 1, 1, 1, 0)

Replies == {ReplyOK, ReplyBadSum, ReplyStatus1}

\* how many bytes of a reply that is cut short arrive
ShortLens == {4}

Next ==
    \/ \E p \in Procs : Call(p, Cmds)
    \/ \E p \in Procs : Lock(p)
    \/ \E p \in Procs : CheckPort(p)
    \/ \E p \in Procs : Write(p)
    \/ \E p \in Procs : WriteFail(p)
    \/ \E p \in Procs : Read(p)
    \/ \E p \in Procs : ReadTimeout(p)
    \/ OpenPortOK
    \/ ClosePortClose
    \/ ClosePortClear
    \/ BoardReply(Replies)
    \/ BoardReplyShort({ReplyOK}, ShortLens)

Spec == Init /\ [][Next]_vars

----------------------------------------------------------------------------
(* FairSpec: the callers and a board that answers, under the scheduling    *)
(* the Go runtime gives: a goroutine that can take a step of Exec takes it *)
(* (a transport call returns, the read at the latest at its deadline), and *)
(* a goroutine waiting in Lock gets the mutex when it is free again and    *)
(* again (sync.Mutex hands it to a starving waiter).                       *)

\* one step of Exec between Lock and return
Step(p) == CheckPort(p) \/ Write(p) \/ WriteFail(p) \/ Read(p) \/ ReadTimeout(p)

NextFair ==
    \/ \E p \in Procs : Call(p, Cmds)
    \/ \E p \in Procs : Lock(p)
    \/ \E p \in Procs : Step(p)
    \/ OpenPortOK
    \/ BoardReply(Replies)

FairSpec ==
    /\ Init
    /\ [][NextFair]_vars
    /\ \A p \in Procs : WF_vars(Step(p)) /\ SF_vars(Lock(p))

----------------------------------------------------------------------------
(* CodecSpec: one caller and a board that answers every command with a     *)
(* whole frame before the read deadline; many commands and replies.        *)

CodecCmds ==
    { CmdROR,
      Args(136, 1, 0, 0),
      Args(5, 255, 255, -1),
      Args(4, 1, 0, MinInt32),
      Args(2, 0, 2, MaxInt32),
      Args(4, 0, 0, 16909060),
      Args(9, 7, 2, -16909060) }

\* a valid reply for every status byte
StatusReplies == { Reply(2, 1, s, 1, 7) : s \in Byte }

\* success replies that carry each command's value back
ValueReplies == { Reply(2, 1, 100, c.cmd, c.value) : c \in CodecCmds }

\* error replies with a value field that is not zero
ErrorValueReplies == { Reply(2, 1, 5, 5, -1), Reply(2, 1, 101, 4, -2) }

\* valid replies with one byte changed on the line
GarbleBytes == {0, 1, 100, 255}
GarbledReplies ==
    { Garble(r, i, b) : r \in {ReplyOK, Reply(2, 1, 5, 5, -1)},
                        i \in 1..FrameLen, b \in GarbleBytes }

\* a reply with a wrong checksum byte for every status byte
BadSumStatusReplies == { Garble(r, FrameLen, (r[FrameLen] + 1) % 256) : r \in StatusReplies }

\* valid replies from several reply addresses and module addresses, echoing
\* several commands, with a success status and with an error status
AddressBytes == {0, 1, 2, 255}
EchoBytes == {1, 2, 136}
AddressReplies ==
    { Reply(a, m, st, e, 7) : a \in AddressBytes, m \in AddressBytes,
                              st \in {5, 100}, e \in EchoBytes }

CodecReplies ==
    StatusReplies \cup ValueReplies \cup ErrorValueReplies \cup GarbledReplies
        \cup BadSumStatusReplies \cup AddressReplies

\* the goroutine that calls
CodecProcs == {p \in Procs : \A q \in Procs : p <= q}

NextCodec ==
    \/ \E p \in CodecProcs : Call(p, CodecCmds)
    \/ \E p \in CodecProcs : Lock(p)
    \/ \E p \in CodecProcs : CheckPort(p)
    \/ \E p \in CodecProcs : Write(p)
    \/ \E p \in CodecProcs : Read(p)
    \/ OpenPortOK
    \/ BoardReply(CodecReplies)

CodecSpec == Init /\ [][NextCodec]_vars

----------------------------------------------------------------------------
(* OutcomeSpec: one caller meets every outcome of Exec: no transport, a    *)
(* failed write, a reply that is late or cut short, a wrong checksum, an   *)
(* error status, success.  Every reply carries a value that is not zero.   *)

\* a valid reply with status 5 and value -1, a success reply with value -2
\* and a wrong checksum byte, and a success reply with value 7
ReplyStatus5 == Reply(2, 1, 5, 1, -1)
ReplyBadSumValue == Garble(Reply(2, 1, 100, 1, -2), 9, 0)

OutcomeReplies == {ReplyOK, ReplyStatus5, ReplyBadSumValue}

NextOutcome ==
    \/ \E p \in CodecProcs : Call(p, Cmds)
    \/ \E p \in CodecProcs : Lock(p)
    \/ \E p \in CodecProcs : CheckPort(p)
    \/ \E p \in CodecProcs : Write(p)
    \/ \E p \in CodecProcs : WriteFail(p)
    \/ \E p \in CodecProcs : Read(p)
    \/ \E p \in CodecProcs : ReadTimeout(p)
    \/ OpenPortOK
    \/ BoardReply(OutcomeReplies)
    \/ BoardReplyShort(OutcomeReplies, ShortLens)

OutcomeSpec == Init /\ [][NextOutcome]_vars

----------------------------------------------------------------------------
(* OpsSpec: one caller calls the named operations of command.go; the board *)
(* answers each command with a whole frame before the read deadline.       *)

OpNames == ErrorOnlyOps \cup (PassThroughOps \ {"Exec"})
              \cup {"GetApplicationStatus", "GetFirmwareVersion"}

\* calls of every operation: byte parameters 3 and 1 or 255 and 0, an int32
\* parameter of 1000 or -5, a bool parameter of either value
OpCalls ==
    { Op(n, xy[1], xy[2], v, f) :
         n \in OpNames, xy \in {<<3, 1>>, <<255, 0>>}, v \in {1000, -5}, f \in BOOLEAN }

\* success replies with values that have a top byte of 0, 2, 4, 127, 128, 254
\* and 255,
\* a reply with an error status and one with a wrong checksum, both with a
\* value that is not zero
OpValues == {0, 255, 33554432, 74711306, MaxInt32, MinInt32, -16909060, -1}
OpReplies ==
    { Reply(2, 1, 100, 1, v) : v \in OpValues }
        \cup {ReplyStatus5, ReplyBadSumValue}

NextOps ==
    \/ \E p \in CodecProcs : CallOp(p, OpCalls)
    \/ \E p \in CodecProcs : Lock(p)
    \/ \E p \in CodecProcs : CheckPort(p)
    \/ \E p \in CodecProcs : Write(p)
    \/ \E p \in CodecProcs : Read(p)
    \/ OpenPortOK
    \/ BoardReply(OpReplies)

OpsSpec == Init /\ [][NextOps]_vars

----------------------------------------------------------------------------
(* LineSpec: one caller makes call after call on an open port; the board   *)
(* answers every command with a whole frame, in time or after the read     *)
(* deadline of the call has passed.                                        *)

NextLine ==
    \/ \E p \in CodecProcs : CallUpTo(p, Cmds, MaxLineCalls)
    \/ \E p \in CodecProcs : Lock(p)
    \/ \E p \in CodecProcs : CheckPort(p)
    \/ \E p \in CodecProcs : Write(p)
    \/ \E p \in CodecProcs : Read(p)
    \/ \E p \in CodecProcs : ReadTimeout(p)
    \/ OpenPortOK
    \/ BoardReply(Replies)

LineSpec == Init /\ [][NextLine]_vars

----------------------------------------------------------------------------
(* SerialSpec: every way OpenPort and ClosePort go, called one at a time,  *)
(* while one caller uses Exec.                                             *)

NextSerial ==
    \/ OpenPortAlready
    \/ OpenPortFail
    \/ OpenPortOK
    \/ ClosePortNoop
    \/ ClosePortClose
    \/ ClosePortClear
    \/ \E p \in CodecProcs : Call(p, Cmds)
    \/ \E p \in CodecProcs : Lock(p)
    \/ \E p \in CodecProcs : Step(p)
    \/ BoardReply(Replies)

SerialSpec == Init /\ [][NextSerial]_vars

----------------------------------------------------------------------------
(* Properties *)

\* goroutine p is between q.cmdMutex.Lock() and the return of Exec
InExec(p) == pc[p] \in {"check", "write", "read"}

\* goroutine p's call has returned after it read a whole reply
ReadReply(p) == pc[p] = "done" /\ resp[p] # <<>>

\* the sum of the first 8 bytes of a frame, as a number
PlainSum(f) == f[1] + f[2] + f[3] + f[4] + f[5] + f[6] + f[7] + f[8]

\* byte 8 of the frame is the sum of bytes 0..7 modulo 256
SumValid(f) == f[9] = PlainSum(f) % 256

\* the four bytes of a 32-bit two's complement number, most significant first
TwosComplementBE(v) ==
    <<(v \div 16777216) % 256, (v \div 65536) % 256, (v \div 256) % 256, v % 256>>

\* C1: at most one call is between acquiring and releasing the command lock,
\* and it is the holder of the lock; on the transport every read directly
\* follows the successful write of the same call, no call writes or reads
\* twice, and every call that read a whole reply made exactly one exchange.
C1_OneExchangeAtATime ==
    /\ \A p, q \in Procs : (InExec(p) /\ InExec(q)) => p = q
    /\ \A p \in Procs : InExec(p) <=> cmdMutex = p
    /\ \A i \in DOMAIN xlog :
          xlog[i].op = "R" =>
             /\ i > 1
             /\ xlog[i - 1] = [op |-> "W", call |-> xlog[i].call, ok |-> TRUE]
    /\ \A i, j \in DOMAIN xlog :
          (xlog[i].op = xlog[j].op /\ xlog[i].call = xlog[j].call) => i = j
    /\ \A p \in Procs :
          ReadReply(p) =>
             Cardinality({i \in DOMAIN xlog : xlog[i].call = call[p] /\ xlog[i].ok}) = 2

\* C1 witness: one call has written and waits for its reply while another
\* caller waits for the lock
C1_Witness ==
    \E p, q \in Procs : p # q /\ pc[p] = "read" /\ pc[q] = "lock"

\* C2: a call that has passed the not-connected check writes and reads on a
\* transport that is still attached and open.
C2_HandleStableInFlight ==
    \A p \in Procs : pc[p] \in {"write", "read"} => (port # NilPort /\ port \notin closed)

\* C3: a call that finds no transport attached returns (0, port not open)
\* and touches neither the transport nor the line; a call that returned the
\* not-connected error returned 0 and made no call on the transport.
C3_NotConnected ==
    /\ [](\A p \in Procs :
            result[p].err = errorPortNotOpen =>
               /\ result[p].val = 0
               /\ \A i \in DOMAIN xlog : xlog[i].call # call[p])
    /\ [][\A p \in Procs :
            (pc[p] = "check" /\ port = NilPort /\ pc'[p] # "check") =>
               /\ pc'[p] = "done"
               /\ result'[p] = Ret(0, Err("port not open"))
               /\ xlog' = xlog
               /\ <<devIn, owed, rx>>' = <<devIn, owed, rx>>]_vars

\* C3 witness: a call returned not connected after the port had been opened
\* and closed again
C3_Witness ==
    \E p \in Procs :
        /\ pc[p] = "done"
        /\ result[p] = Ret(0, errorPortNotOpen)
        /\ port = NilPort
        /\ opened > 0

\* C4: every write of a command frame is announced by one LogSend of that
\* call and every whole reply read by one LogRecv of that call.
C4_ObserverNotified ==
    \A i \in DOMAIN xlog :
        /\ (xlog[i].op = "W") =>
              Cardinality({j \in DOMAIN logged :
                  logged[j].hook = "LogSend" /\ logged[j].call = xlog[i].call}) = 1
        /\ (xlog[i].op = "R" /\ xlog[i].ok) =>
              Cardinality({j \in DOMAIN logged :
                  logged[j].hook = "LogRecv" /\ logged[j].call = xlog[i].call}) = 1

\* the outcome the status table gives for status byte s
StatusTable(s) ==
    CASE s \in {100, 101} -> Err("nil")
      [] s = 1 -> Err("wrong checksum")
      [] s = 2 -> Err("invalid command")
      [] s = 3 -> Err("wrong type")
      [] s = 4 -> Err("invalid type")
      [] s = 5 -> Err("configuration EEPROM locked")
      [] s = 6 -> Err("command not available")
      [] OTHER -> Errf("board returned error code %d", s)

\* C5: for a reply with a valid checksum the error Exec returns is the one
\* the status table gives for the status byte: 100 and 101 success, 1..6 the
\* six named errors, every other code the unknown-status error with the code.
C5_StatusTable ==
    \A p \in Procs :
        (ReadReply(p) /\ SumValid(resp[p])) => result[p].err = StatusTable(resp[p][3])

\* C6: the frame on the line carries the value in bytes 4..7 as big-endian
\* two's complement, and a reply with valid checksum, status 100 and those
\* four value bytes makes Exec return (value, nil).
C6_ValueRoundTrip ==
    \A p \in Procs :
        /\ pc[p] = "read" => SubSeq(devIn, 5, 8) = TwosComplementBE(args[p].value)
        /\ ( /\ ReadReply(p)
             /\ SumValid(resp[p])
             /\ resp[p][3] = 100
             /\ SubSeq(resp[p], 5, 8) = TwosComplementBE(args[p].value) )
           => result[p] = Ret(args[p].value, ErrNil)

\* C6 witness: INT32_MIN has made the round trip
C6_Witness ==
    \E p \in Procs :
        /\ ReadReply(p)
        /\ args[p].value = MinInt32
        /\ SumValid(resp[p])
        /\ resp[p][3] = 100
        /\ SubSeq(resp[p], 5, 8) = <<128, 0, 0, 0>>
        /\ result[p].val = MinInt32

\* C7: every frame the board receives is 9 bytes [2, cmd, type, motorOrBank,
\* value as 4 big-endian bytes, checksum] of the call that wrote it, the
\* checksum being the sum of the 8 bytes before it modulo 256; Exec(1,0,1,500)
\* writes 02 01 00 01 00 00 01 F4 F9.
C7_FrameLayout ==
    /\ devIn # <<>> =>
          /\ Len(devIn) = 9
          /\ \A i \in 1..9 : devIn[i] \in Byte
          /\ devIn[1] = 2
          /\ devIn[9] = PlainSum(devIn) % 256
    /\ \A p \in Procs :
          pc[p] = "read" =>
             /\ devIn[2] = args[p].cmd
             /\ devIn[3] = args[p].typeNo
             /\ devIn[4] = args[p].motorOrBank
             /\ SubSeq(devIn, 5, 8) = TwosComplementBE(args[p].value)
             /\ (args[p] = Args(1, 0, 1, 500) => devIn = <<2, 1, 0, 1, 0, 0, 1, 244, 249>>)

\* C7 witness: a frame has been written whose byte sum does not fit 8 bits
C7_Witness ==
    \E p \in Procs : pc[p] = "read" /\ PlainSum(devIn) > 255

\* C8: a whole reply whose byte 8 is not the sum of bytes 0..7 modulo 256
\* yields the checksum error; one whose checksum is valid does not (unless its
\* status byte is 1, which Exec reports with the same error); so a reply that
\* differs in exactly one byte from a frame with a valid checksum yields the
\* checksum error.
C8_ReplyChecksum ==
    \A p \in Procs :
        ReadReply(p) =>
           /\ ~SumValid(resp[p]) => result[p] = Ret(0, Err("wrong checksum"))
           /\ (SumValid(resp[p]) /\ resp[p][3] # 1) => result[p].err # Err("wrong checksum")
           /\ result[p] # Ret(0, Err("wrong checksum")) =>
                 \A i \in 1..9, b \in Byte :
                     b # resp[p][i] => ~SumValid(Garble(resp[p], i, b))

\* C8 witness: a reply with one byte before the checksum changed was read
C8_Witness ==
    \E p \in Procs :
        /\ ReadReply(p)
        /\ \E i \in 1..8 : resp[p] = Garble(ReplyOK, i, 255)
        /\ result[p] = Ret(0, errorWrongChecksum)

\* C9: the command lock is held only by a call that is inside Exec, so every
\* return releases it; every call that has entered Exec returns, and every
\* caller that waits for the lock gets it.
C9_LockAlwaysReleased ==
    /\ [](\A p \in Procs : cmdMutex = p => InExec(p))
    /\ \A p \in Procs : (pc[p] = "lock") ~> (cmdMutex = p)
    /\ \A p \in Procs : (pc[p] = "lock" \/ InExec(p)) ~> (pc[p] = "done")

\* C9 witness: a caller runs its exchange after an earlier call has failed
C9_Witness ==
    \E p, q \in Procs :
        /\ pc[p] = "done"
        /\ result[p].err # ErrNil
        /\ call[p] < call[q]
        /\ pc[q] = "read"

\* C10: what Exec returns for a reply whose checksum is wrong differs from
\* what it returns for a reply with a valid checksum and status byte 1.
C10_ChecksumErrorsApart ==
    \A p, q \in Procs :
        ( /\ ReadReply(p) /\ ~SumValid(resp[p])
          /\ ReadReply(q) /\ SumValid(resp[q]) /\ resp[q][3] = 1 )
        => result[p] # result[q]

\* the calls of kind "W" or "R" that call c made on the transport
EventsOf(kind, c) == SelectSeq(xlog, LAMBDA e : e.op = kind /\ e.call = c)

\* goroutine p's call has passed the not-connected check and returned
ReturnedAttached(p) == pc[p] = "done" /\ result[p].err # errorPortNotOpen

\* C11 as stated: every call that found a transport attached and returned has
\* made exactly one write and exactly one read on the transport.
C11_OneWriteOneRead ==
    \A p \in Procs :
       ReturnedAttached(p) =>
          /\ Len(EventsOf("W", call[p])) = 1
          /\ Len(EventsOf("R", call[p])) = 1

\* C11 amended: every call makes at most one write and at most one read on
\* the transport, whatever the outcome, the read only after its own write
\* succeeded; a call whose write fails returns without reading, and a call
\* that returns after its write succeeded has made exactly one read.
C11_NoRetry ==
    /\ \A i, j \in DOMAIN xlog :
          (xlog[i].call = xlog[j].call /\ i < j) =>
             /\ xlog[i] = [op |-> "W", call |-> xlog[i].call, ok |-> TRUE]
             /\ xlog[j].op = "R"
    /\ \A p \in Procs :
          ReturnedAttached(p) =>
             \E i \in DOMAIN xlog :
                /\ xlog[i].op = "W" /\ xlog[i].call = call[p]
                /\ xlog[i].ok <=> (\E j \in DOMAIN xlog :
                                      xlog[j].op = "R" /\ xlog[j].call = call[p])
                /\ xlog[i].ok <=> result[p].err # errWrite

\* C11 witness: a call whose write failed has returned, one write and no read
\* made, after an earlier call made a whole exchange
C11_Witness ==
    \E p, q \in Procs :
       /\ pc[p] = "done" /\ result[p].err = errWrite
       /\ Len(EventsOf("W", call[p])) = 1 /\ Len(EventsOf("R", call[p])) = 0
       /\ ReadReply(q) /\ call[q] < call[p]

\* C12: a call that returns an error returns the value 0, whatever the value
\* field of the reply it read; a call returns a nil error only after it read
\* a whole reply, and then its value is the number whose 32-bit two's
\* complement, most significant byte first, is bytes 4..7 of that reply.
C12_ValueOnlyWithNil ==
    \A p \in Procs :
       pc[p] = "done" =>
          /\ result[p].err # ErrNil => result[p].val = 0
          /\ result[p].err = ErrNil =>
                /\ ReadReply(p)
                /\ result[p].val \in MinInt32..MaxInt32
                /\ TwosComplementBE(result[p].val) = SubSeq(resp[p], 5, 8)

\* C12 witness: a valid reply with status 5 and value bytes FF FF FF FF was
\* read, and the call returned (0, configuration locked)
C12_Witness ==
    \E p \in Procs :
       /\ ReadReply(p)
       /\ SumValid(resp[p])
       /\ resp[p][3] = 5
       /\ SubSeq(resp[p], 5, 8) = <<255, 255, 255, 255>>
       /\ result[p] = Ret(0, errorConfigurationEEPROMLocked)

\* C15: a call that read a whole reply whose last byte is not the sum of the
\* first eight returns (0, wrong checksum) whatever the status byte; when the
\* sum is right the status byte decides: an error exactly for a status
\* below 100.
C15_ChecksumBeforeStatus ==
    \A p \in Procs :
       ReadReply(p) =>
          /\ ~SumValid(resp[p]) => result[p] = Ret(0, Err("wrong checksum"))
          /\ SumValid(resp[p]) => (result[p].err = ErrNil <=> resp[p][3] >= 100)

\* C15 witness: a reply with a wrong checksum and the error status 2 was read
\* and answered with the checksum error
C15_Witness ==
    \E p \in Procs :
       /\ ReadReply(p)
       /\ ~SumValid(resp[p])
       /\ resp[p][3] = 2
       /\ result[p] = Ret(0, Err("wrong checksum"))

\* the reply f with reply address a, module address m and command echo e in
\* bytes 0, 1 and 3, and the checksum byte moved by as much as their sum moved
Reseal(f, a, m, e) ==
    [f EXCEPT ![1] = a, ![2] = m, ![4] = e,
              ![9] = (f[9] + (a - f[1]) + (m - f[2]) + (e - f[4])) % 256]

\* C19: the result of a call that read a whole reply is the result of every
\* reply that differs from it only in the reply address, the module address
\* and the command echo (and in the checksum byte that covers them); a valid
\* reply with a success status is accepted, with its value, also when it
\* does not echo the command sent or does not come from the address written to.
C19_AddressAndEchoIgnored ==
    \A p \in Procs :
       ReadReply(p) =>
          /\ \A a, m \in AddressBytes, e \in EchoBytes :
                /\ SumValid(Reseal(resp[p], a, m, e)) <=> SumValid(resp[p])
                /\ ExecReply(Reseal(resp[p], a, m, e)) = result[p]
          /\ (SumValid(resp[p]) /\ resp[p][3] >= 100) =>
                /\ result[p].err = ErrNil
                /\ TwosComplementBE(result[p].val) = SubSeq(resp[p], 5, 8)

\* C19 witness: after the command 1 was written to address 2, a valid reply
\* from module address 255 that echoes command 136 was read and accepted
C19_Witness ==
    \E p \in Procs :
       /\ ReadReply(p)
       /\ tx[p][1] = 2 /\ tx[p][2] = 1
       /\ SumValid(resp[p])
       /\ resp[p][2] = 255 /\ resp[p][4] = 136
       /\ result[p] = Ret(7, ErrNil)

\* the errors a read of the transport ends with
ReadErrors == {errEOF, errUnexpectedEOF, errRead}

\* C16: a call whose write failed has returned (0, the write error) and made
\* no read; a call whose read failed has returned (0, a read error) and holds
\* no reply; and a read that ends with fewer than 9 bytes on the line returns
\* (0, a read error) in that step, without a reply to check or decode.
C16_TransportFailureEndsCall ==
    /\ [](\A p \in Procs :
            pc[p] = "done" =>
               /\ EventsOf("W", call[p]) = <<[op |-> "W", call |-> call[p], ok |-> FALSE]>> =>
                     /\ result[p] = Ret(0, errWrite)
                     /\ EventsOf("R", call[p]) = <<>>
                     /\ resp[p] = <<>>
               /\ EventsOf("R", call[p]) = <<[op |-> "R", call |-> call[p], ok |-> FALSE]>> =>
                     /\ result[p].val = 0
                     /\ result[p].err \in ReadErrors
                     /\ resp[p] = <<>>
               /\ result[p].err \in ReadErrors \cup {errWrite} => resp[p] = <<>>)
    /\ [][\A p \in Procs :
            (pc[p] = "read" /\ pc'[p] = "done" /\ Len(rx) < FrameLen) =>
               /\ result'[p].val = 0
               /\ result'[p].err \in ReadErrors
               /\ resp'[p] = <<>>]_vars

\* C16 witness: a call read 4 bytes of a reply and returned (0, unexpected
\* EOF), after an earlier call's write failed
C16_Witness ==
    \E p \in Procs :
       /\ pc[p] = "done"
       /\ result[p] = Ret(0, errUnexpectedEOF)
       /\ resp[p] = <<>>
       /\ \E c \in 1..ncalls :
             c < call[p] /\ EventsOf("W", c) = <<[op |-> "W", call |-> c, ok |-> FALSE]>>

\* no call of OpenPort or ClosePort is under way
SerialIdle == spc = "idle"

\* the ports opened so far and not closed
OpenPorts == {h \in 1..opened : h \notin closed}

\* C18: between calls of OpenPort and ClosePort the transport handle is
\* attached exactly when serialPort is set, and then both are the one port
\* that is open; OpenPort has returned nil only with the Serial open and an
\* error only with it closed.  An OpenPort on an open Serial, an OpenPort that
\* fails and a ClosePort on a closed Serial leave the handle, serialPort and
\* the ports opened and closed as they were.
C18_SerialLifecycle ==
    /\ [](SerialIdle =>
            /\ port # NilPort <=> serialPort # NilPort
            /\ port = serialPort
            /\ OpenPorts = IF serialPort = NilPort THEN {} ELSE {serialPort}
            /\ serialRet = "nil" => serialPort # NilPort
            /\ serialRet = "error" => serialPort = NilPort)
    /\ [][(SerialIdle /\ SerialIdle'
              /\ \/ serialPort # NilPort
                 \/ serialRet' \in {"error", "none"})
            => UNCHANGED <<port, serialPort, opened, closed>>]_vars

\* C18 witness: a Serial was opened and closed, and then an OpenPort failed:
\* it is detached, and the one port ever opened is closed
C18_Witness ==
    /\ SerialIdle
    /\ serialRet = "error"
    /\ port = NilPort /\ serialPort = NilPort
    /\ opened = 1 /\ closed = {1}

\* the two hexadecimal digits of each byte of b, one after the other
HexOfBytes(b) ==
    [i \in 1..(2 * Len(b)) |->
        HexDigits[(IF i % 2 = 1 THEN b[(i + 1) \div 2] \div 16 ELSE b[i \div 2] % 16) + 1]]

\* C13: when Exec returned a nil error, GetFirmwareVersion returns the 8
\* hexadecimal digits of bytes 4..7 of the reply, two for each byte, and a
\* nil error; when Exec returned an error it returns "" and that error.
C13_FirmwareEightHexDigits ==
    \A p \in Procs :
       (pc[p] = "done" /\ op[p].name = "GetFirmwareVersion") =>
          IF result[p].err = ErrNil
          THEN opret[p] = OpRet(HexOfBytes(SubSeq(resp[p], 5, 8)), ErrNil)
          ELSE opret[p] = OpRet(<<>>, result[p].err)

\* the opcode the documentation gives each operation
Opcode ==
    [n \in OpNames |->
       CASE n = "ROR" -> 1 [] n = "ROL" -> 2 [] n = "MST" -> 3 [] n = "MVP" -> 4
         [] n = "SAP" -> 5 [] n = "GAP" -> 6 [] n = "STAP" -> 7 [] n = "RSAP" -> 8
         [] n = "SGP" -> 9 [] n = "GGP" -> 10 [] n = "STGP" -> 11 [] n = "RSGP" -> 12
         [] n = "SIO" -> 14 [] n = "GIO" -> 15
         [] n = "StopApplication" -> 128 [] n = "RunApplication" -> 129
         [] n = "StepApplication" -> 130 [] n = "ResetApplication" -> 131
         [] n = "GetApplicationStatus" -> 135 [] n = "GetFirmwareVersion" -> 136]

\* C17: a call of a named operation is one call of Exec with the operation's
\* opcode, which is byte 1 of the frame written; it makes at most one
\* exchange, and exactly one when a transport is attached; SIO passes the
\* value 1 for true and 0 for false, RunApplication the type 1 for a specific
\* address and 0 otherwise, with the address as value; the operation returns
\* the error Exec returned; GetApplicationStatus returns byte 4 of the reply,
\* a number in 0..255, on success.
C17_NamedOperations ==
    \A p \in Procs :
       (pc[p] # "idle" /\ op[p].name \in OpNames) =>
          /\ args[p].cmd = Opcode[op[p].name]
          /\ tx[p] # <<>> => tx[p][2] = Opcode[op[p].name]
          /\ Len(EventsOf("W", call[p])) <= 1
          /\ Len(EventsOf("R", call[p])) <= 1
          /\ op[p].name = "SIO" => args[p].value = IF op[p].f THEN 1 ELSE 0
          /\ op[p].name = "RunApplication" =>
                /\ args[p].typeNo = 1 <=> op[p].f
                /\ args[p].typeNo \in {0, 1}
                /\ args[p].value = op[p].v
          /\ pc[p] = "done" =>
                /\ opret[p].err = result[p].err
                /\ result[p].err # errorPortNotOpen =>
                      /\ Len(EventsOf("W", call[p])) = 1
                      /\ Len(EventsOf("R", call[p])) = 1
                /\ (op[p].name = "GetApplicationStatus" /\ result[p].err = ErrNil) =>
                      /\ opret[p].out = <<resp[p][5]>>
                      /\ opret[p].out[1] \in 0..255

\* C17 witness: GetApplicationStatus read a reply with value bytes
\* 80 00 00 00 and returned (128, nil)
C17_Witness ==
    \E p \in Procs :
       /\ ReadReply(p)
       /\ op[p].name = "GetApplicationStatus"
       /\ tx[p][2] = 135
       /\ SubSeq(resp[p], 5, 8) = <<128, 0, 0, 0>>
       /\ opret[p] = OpRet(<<128>>, ErrNil)

\* the calls whose command was written, in the order of the writes
WrittenCalls ==
    LET written == SelectSeq(xlog, LAMBDA e : e.op = "W" /\ e.ok)
    IN  [i \in 1..Len(written) |-> written[i].call]

\* the calls whose reply has not been read: the board still owes it, or it is
\* on the line
Unread ==
    {rxTag[i] : i \in DOMAIN rxTag}
       \cup {WrittenCalls[i] : i \in (Len(WrittenCalls) - owed + 1)..Len(WrittenCalls)}

\* how many replies to calls that have returned are owed or on the line
Lag == Cardinality({c \in Unread : ~\E p \in Procs : pc[p] = "read" /\ call[p] = c})

\* C14: a call that read a reply read the 9 bytes of one reply, sent to its
\* own command or to an earlier one, and returned what that reply says.  Bytes
\* leave the line only as the 9 bytes a read returns, the oldest first; the
\* number of unread replies to calls that have returned never goes down; and
\* a read made when that number is k returns the reply to the command written
\* k commands before its own.
C14_OffsetNeverRepaired ==
    /\ [](\A p \in Procs :
            ReadReply(p) =>
               /\ result[p] = ExecReply(resp[p])
               /\ from[p] = [i \in 1..FrameLen |-> from[p][1]]
               /\ from[p][1] <= call[p])
    /\ [][/\ Lag' >= Lag
          /\ rx' # rx =>
                \/ \E r \in Replies : rx' = rx \o r
                \/ \E p \in Procs :
                      /\ pc[p] = "read" /\ pc'[p] = "done"
                      /\ resp'[p] = SubSeq(rx, 1, FrameLen)
                      /\ rx' = SubSeq(rx, FrameLen + 1, Len(rx))
          /\ \A p \in Procs :
                (pc[p] = "read" /\ pc'[p] = "done" /\ resp'[p] # <<>>) =>
                   from'[p][1] = WrittenCalls[Len(WrittenCalls) - Lag]]_vars

\* C14 witness: the first call's read timed out; the second call read the
\* reply to the first; the third call has read the reply to the second and
\* returned its value, and the reply to the third is the one unread
C14_Witness ==
    \E p \in Procs :
       /\ EventsOf("R", 1) = <<[op |-> "R", call |-> 1, ok |-> FALSE]>>
       /\ EventsOf("R", 2) = <<[op |-> "R", call |-> 2, ok |-> TRUE]>>
       /\ ReadReply(p)
       /\ call[p] = 3
       /\ from[p][1] = 2
       /\ result[p] = Ret(7, ErrNil)
       /\ Unread = {3}
       /\ Lag = 1

============================================================================
